---- MODULE Spec2Model ----
(***************************************************************************)
(* WorkingCopyService (the resource-keyed dirty-state registry) and the    *)
(* DirtyFilesTracker contribution that shows the "unsaved files" badge.    *)
(*                                                                         *)
(* Every action is one whole, synchronous operation of the single UI       *)
(* thread: a registerWorkingCopy call, the disposal of a registration      *)
(* handle, a working copy changing/firing its dirty state, a change of the *)
(* auto-save setting.  Registry events are delivered synchronously, so the *)
(* tracker's handler runs inside the action that fires the event.          *)
(***************************************************************************)
EXTENDS Integers, Sequences, FiniteSets, Bags, TLC

VARIABLES
    dirty,                      \* dirty[c]: what copy c answers to isDirty()
    mapResourceToWorkingCopy,   \* the index: resource string -> set of copies
    handles,                    \* the bag of handles registerWorkingCopy returned
    registered,                 \* the copies registered and not unregistered since
    autoSaveMode,               \* what textFileService.getAutoSaveMode() answers
    lastKnownDirtyCount,        \* DirtyFilesTracker.lastKnownDirtyCount
    badgeHandle,                \* DirtyFilesTracker.badgeHandle (0: no value)
    activity,                   \* the badges the activity host shows, in order
    op,                         \* the operation that ran last
    fired,                      \* the registry events that operation fired
    observed,                   \* what a listener reads at each of these events
    updates,                    \* the updateActivityBadge calls it made
    textModels,                 \* textFileService.models: the model of a resource
    openEditors,                \* the resources editorService.isOpen answers true for
    isDisposed,                 \* the DirtyFilesTracker is disposed
    modelsDirty,                \* the onModelsDirty batch that operation delivered
    stacks,                     \* the registry's functions running at each event of it
    openRequests                \* the editorService.openEditors calls it made

vars == <<dirty, mapResourceToWorkingCopy, handles, registered, autoSaveMode,
          lastKnownDirtyCount, badgeHandle, activity, op, fired, observed,
          updates, textModels, openEditors, isDisposed, modelsDirty,
          openRequests, stacks>>

\* The number of registerWorkingCopy calls of a run.
MaxRegistrations == 3

----------------------------------------------------------------------------
(* Working copies and resources *)

\* The working copy instances; membership in the index is by identity.
Copies == {"A", "B", "C"}

\* A URI (scheme and path).
FileF1 == [scheme |-> "file", path |-> "/f1"]
FileF2 == [scheme |-> "file", path |-> "/f2"]
UntitledF1 == [scheme |-> "untitled", path |-> "/f1"]
Resources == {FileF1, FileF2, UntitledF1}

\* workingCopy.resource: A and B are two working copies of one resource.
resource(c) == IF c = "C" THEN FileF2 ELSE FileF1

\* workingCopy.capabilities: B and C declare AutoSave, A declares nothing.
capabilities(c) == IF c = "A" THEN {} ELSE {"AutoSave"}

\* URI.toString(): the string form used as the key of the index.
toString(uri) ==
    uri.scheme \o ":" \o (IF uri.scheme = "file" THEN "//" ELSE "") \o uri.path

----------------------------------------------------------------------------
(* WorkingCopyService *)

\* TernarySearchTree.get(key) answers a set rather than undefined.
has(key) == key \in DOMAIN mapResourceToWorkingCopy

\* Set.has(workingCopy); a Set<IWorkingCopy> is modelled as the sequence of
\* its members in insertion order, the order in which a for-of visits them.
setHas(workingCopies, workingCopy) ==
    \E i \in 1..Len(workingCopies) : workingCopies[i] = workingCopy

\* anyDirty answering from the first copy of the set alone.
anyDirtyFirstOnly(workingCopies, d) ==
    IF workingCopies = <<>> THEN FALSE ELSE d[Head(workingCopies)]

\* The loop of isDirty over one Set<IWorkingCopy>, the dirty states being d:
\* true at the first dirty copy.
RECURSIVE anyDirty(_, _)
anyDirty(workingCopies, d) ==
    IF workingCopies = <<>> THEN FALSE
    ELSE IF d[Head(workingCopies)] THEN TRUE
    ELSE anyDirty(Tail(workingCopies), d)

\* WorkingCopyService.isDirty(resource) over index m and dirty states d.
isDirtyOf(m, d, uri) ==
    IF toString(uri) \in DOMAIN m THEN anyDirty(m[toString(uri)], d)
    ELSE FALSE

\* WorkingCopyService.isDirty(resource) (in the current state).
isDirty(uri) == isDirtyOf(mapResourceToWorkingCopy, dirty, uri)

\* countDirty counting a set with a dirty copy once, however many it holds.
countDirtyOncePerSet(workingCopies, d) ==
    IF \E i \in 1..Len(workingCopies) : d[workingCopies[i]] THEN 1 ELSE 0

\* The inner loop of dirtyCount: totalDirtyCount++ for each dirty copy of a set.
RECURSIVE countDirty(_, _)
countDirty(workingCopies, d) ==
    IF workingCopies = <<>> THEN 0
    ELSE (IF d[Head(workingCopies)] THEN 1 ELSE 0)
         + countDirty(Tail(workingCopies), d)

\* The forEach of dirtyCount over the entries of index m.
RECURSIVE totalDirtyCount(_, _, _)
totalDirtyCount(m, keys, d) ==
    IF keys = {} THEN 0
    ELSE LET key == CHOOSE k \in keys : TRUE
         IN  countDirty(m[key], d) + totalDirtyCount(m, keys \ {key}, d)

\* WorkingCopyService.dirtyCount over index m and dirty states d.
dirtyCountOf(m, d) == totalDirtyCount(m, DOMAIN m, d)

\* WorkingCopyService.dirtyCount (the getter, in the current state).
dirtyCount == dirtyCountOf(mapResourceToWorkingCopy, dirty)

\* addToRegistry adding the copy without asking whether the set has it.
addToRegistryAlways(m, workingCopy) ==
    LET key == toString(resource(workingCopy))
        created == IF key \in DOMAIN m THEN m ELSE (key :> <<>>) @@ m
    IN  [created EXCEPT ![key] = Append(@, workingCopy)]

\* registerWorkingCopy, "// Registry": the index m after workingCopy is added.
addToRegistry(m, workingCopy) ==
    LET key == toString(resource(workingCopy))
        created == IF key \in DOMAIN m THEN m ELSE (key :> <<>>) @@ m
    IN  IF setHas(created[key], workingCopy) THEN created
        ELSE [created EXCEPT ![key] = Append(@, workingCopy)]

\* removeFromRegistry never deleting the key of a set it emptied.
removeFromRegistryKeepsKey(m, workingCopy) ==
    LET key == toString(resource(workingCopy))
    IN  IF key \notin DOMAIN m THEN m
        ELSE [m EXCEPT ![key] = SelectSeq(@, LAMBDA w : w # workingCopy)]

\* removeFromRegistry deleting the key whenever the copy was deleted, with
\* whatever other copies its set holds.
removeFromRegistryDropsKey(m, workingCopy) ==
    LET key == toString(resource(workingCopy))
    IN  IF key \notin DOMAIN m THEN m
        ELSE IF setHas(m[key], workingCopy)
             THEN [k \in DOMAIN m \ {key} |-> m[k]]
             ELSE m

\* unregisterWorkingCopy, "// Remove from registry": the index m after
\* workingCopy is deleted from its resource's set, and the key with it when
\* the delete emptied the set.
removeFromRegistry(m, workingCopy) ==
    LET key == toString(resource(workingCopy))
    IN  IF key \notin DOMAIN m THEN m
        ELSE LET deleted == setHas(m[key], workingCopy)
                 workingCopiesForResource ==
                     SelectSeq(m[key], LAMBDA w : w # workingCopy)
             IN  IF deleted /\ Len(workingCopiesForResource) = 0
                 THEN [k \in DOMAIN m \ {key} |-> m[k]]
                 ELSE [m EXCEPT ![key] = workingCopiesForResource]

\* compensatingEvents without the isDirty() test.
compensatingEventsAlways(workingCopy, d) == <<workingCopy>>

\* unregisterWorkingCopy, "// If copy is dirty ...": the events it fires.
compensatingEvents(workingCopy, d) ==
    IF d[workingCopy] THEN <<workingCopy>> ELSE <<>>

\* The functions of the registry that run while it fires each of events, when
\* all are fired from under frames.
under(events, frames) == [i \in 1..Len(events) |-> frames]

\* What a listener of the registry's onDidChangeDirty reads when it is called
\* with each of events, the index being m and the dirty states d: dirtyCount
\* and isDirty(copy.resource).
readings(events, m, d) ==
    [i \in 1..Len(events) |->
        [dirtyCount |-> dirtyCountOf(m, d),
         isDirty |-> isDirtyOf(m, d, resource(events[i]))]]

\* The handle registerWorkingCopy(workingCopy) returns, and the same handle
\* once disposed.  Two handles of one copy in the same state are
\* interchangeable, so the handles are kept as a bag.
liveHandle(workingCopy) == [workingCopy |-> workingCopy, disposed |-> FALSE]
deadHandle(workingCopy) == [workingCopy |-> workingCopy, disposed |-> TRUE]

\* listeners, had the handle's disposal left the DisposableStore alone.
listenersNeverDisposed(workingCopy) ==
    CopiesIn(liveHandle(workingCopy), handles)
    + CopiesIn(deadHandle(workingCopy), handles)

\* The number of listeners registerWorkingCopy added to
\* workingCopy.onDidChangeDirty that are not disposed: each call adds one to
\* the handle's DisposableStore, which the handle's disposal disposes.
listeners(workingCopy) == CopiesIn(liveHandle(workingCopy), handles)

\* forwardedEvents dropping a firing that comes with no change of isDirty().
forwardedEventsDeduplicated(workingCopy) ==
    IF dirty'[workingCopy] = dirty[workingCopy] THEN <<>>
    ELSE [i \in 1..listeners(workingCopy) |-> workingCopy]

\* workingCopy.onDidChangeDirty fires once: each listener of line 108 fires
\* the registry's onDidChangeDirty with the copy.
forwardedEvents(workingCopy) ==
    [i \in 1..listeners(workingCopy) |-> workingCopy]

----------------------------------------------------------------------------
(* DirtyFilesTracker; its state is the record                              *)
(* [lastKnownDirtyCount, badgeHandle, activity, updates].                  *)

\* lastKnownDirtyCount === undefined
Undefined == -1

AutoSaveModes == {"OFF", "AFTER_SHORT_DELAY", "AFTER_LONG_DELAY"}

\* hasDirtyCount taking a known count of zero for a dirty count.
hasDirtyCountFromZero(t) ==
    t.lastKnownDirtyCount # Undefined /\ t.lastKnownDirtyCount >= 0

\* DirtyFilesTracker.hasDirtyCount
hasDirtyCount(t) ==
    t.lastKnownDirtyCount # Undefined /\ t.lastKnownDirtyCount > 0

\* badgeLabel without the singular form.
badgeLabelAlwaysPlural(num, count) == ToString(count) \o " unsaved files"

\* The label function of the NumberBadge, applied to num.
badgeLabel(num, count) ==
    IF num = 1 THEN "1 unsaved file" ELSE ToString(count) \o " unsaved files"

\* new NumberBadge(dirtyCount, num => ...): the number and the label shown.
NumberBadge(count) == [number |-> count, label |-> badgeLabel(count, count)]

\* Sequence s without its i-th element.
RemoveAt(s, i) == SubSeq(s, 1, i - 1) \o SubSeq(s, i + 1, Len(s))

\* badgeHandle.value = activityService.showActivity(badge): the host shows
\* the badge, then the handle disposes the value it held.
setBadge(t, badge) ==
    LET shown == Append(t.activity, badge)
        kept  == IF t.badgeHandle = 0 THEN shown ELSE RemoveAt(shown, t.badgeHandle)
    IN  [t EXCEPT !.activity = kept, !.badgeHandle = Len(kept)]

\* badgeHandle.clear()
clearBadge(t) ==
    IF t.badgeHandle = 0 THEN t
    ELSE [t EXCEPT !.activity = RemoveAt(t.activity, t.badgeHandle),
                   !.badgeHandle = 0]

\* DirtyFilesTracker.updateActivityBadge, count being workingCopyService.dirtyCount
updateActivityBadge(t, count) ==
    LET known == [t EXCEPT !.lastKnownDirtyCount = count, !.updates = @ + 1]
    IN  IF count > 0 THEN setBadge(known, NumberBadge(count))
        ELSE clearBadge(known)

\* suppressed testing for the long delay instead of the short one.
suppressedOnLongDelay(copy, mode) ==
    "AutoSave" \in capabilities(copy) /\ mode = "AFTER_LONG_DELAY"

\* The first test of onWorkingCopyDidChangeDirty: the event is not indicated.
suppressed(copy, mode) ==
    "AutoSave" \in capabilities(copy) /\ mode = "AFTER_SHORT_DELAY"

\* onWorkingCopyDidChangeDirty recomputing only for a copy that got dirty.
onWorkingCopyDidChangeDirtyOnlyWhenDirty(t, copy, m, d, mode) ==
    IF suppressed(copy, mode) THEN t
    ELSE IF d[copy] THEN updateActivityBadge(t, dirtyCountOf(m, d))
    ELSE t

\* DirtyFilesTracker.onWorkingCopyDidChangeDirty(copy), run while the index
\* is m, the dirty states are d and the auto-save mode is mode.
onWorkingCopyDidChangeDirty(t, copy, m, d, mode) ==
    IF suppressed(copy, mode) THEN t
    ELSE LET gotDirty == d[copy]
         IN  IF gotDirty \/ hasDirtyCount(t)
             THEN updateActivityBadge(t, dirtyCountOf(m, d))
             ELSE t

\* Emitter.fire for each of events in turn, the tracker being the listener
\* until it is disposed.
RECURSIVE deliver(_, _, _, _, _)
deliver(t, events, m, d, mode) ==
    IF events = <<>> \/ isDisposed THEN t
    ELSE deliver(onWorkingCopyDidChangeDirty(t, Head(events), m, d, mode),
                 Tail(events), m, d, mode)

\* The tracker before an operation, and its variables after it.
tracker ==
    [lastKnownDirtyCount |-> lastKnownDirtyCount, badgeHandle |-> badgeHandle,
     activity |-> activity, updates |-> 0]

trackerBecomes(t) ==
    \E after \in {t} :
        /\ lastKnownDirtyCount' = after.lastKnownDirtyCount
        /\ badgeHandle' = after.badgeHandle
        /\ activity' = after.activity
        /\ updates' = after.updates

\* The resources of text file models.
TextResources == {FileF1, FileF2}

\* The events of an onModelsDirty batch.
MaxBatch == 3

\* The batches: every sequence of at most MaxBatch resources, one per
\* TextFileModelChangeEvent.
Batches == UNION {[1..n -> TextResources] : n \in 0..MaxBatch}

\* textFileService.models.get(resource): undefined, or a model with its
\* isDirty() and hasState(ModelState.PENDING_SAVE).
NoModel == [exists |-> FALSE, dirty |-> FALSE, pendingSave |-> FALSE]
Models ==
    {NoModel} \cup [exists : {TRUE}, dirty : BOOLEAN, pendingSave : BOOLEAN]

\* The filter opening a dirty file whose save is pending as well.
shouldOpenEditorDespitePendingSave(r) ==
    LET model == textModels[r]
        shouldOpen == model.exists /\ model.dirty
    IN  shouldOpen /\ r \notin openEditors

\* The filter of onTextFilesDirty applied to the event of resource r.
shouldOpenEditor(r) ==
    LET model == textModels[r]
        shouldOpen == model.exists /\ model.dirty /\ ~model.pendingSave
    IN  shouldOpen /\ r \notin openEditors

\* arrays.distinct(resources, r => r.toString()): the first element of each key.
RECURSIVE distinct(_)
distinct(resources) ==
    IF resources = <<>> THEN <<>>
    ELSE LET front == distinct(SubSeq(resources, 1, Len(resources) - 1))
             last == resources[Len(resources)]
         IN  IF \E i \in 1..Len(front) : toString(front[i]) = toString(last)
             THEN front
             ELSE Append(front, last)

\* doOpenDirtyResources(resources): the argument of editorService.openEditors.
doOpenDirtyResources(resources) ==
    [i \in 1..Len(resources) |->
        [resource |-> resources[i],
         options |-> [inactive |-> TRUE, pinned |-> TRUE, preserveFocus |-> TRUE]]]

\* DirtyFilesTracker.onTextFilesDirty(e): the openEditors calls it makes.
textFilesDirtyRequests(e) ==
    <<doOpenDirtyResources(distinct(SelectSeq(e, shouldOpenEditor)))>>

----------------------------------------------------------------------------
(* The operations *)

\* The operations of the registry deliver no onModelsDirty batch, open no
\* editor and leave the text file models, the editors and the tracker's
\* lifecycle alone.
noTextFiles ==
    /\ modelsDirty' = <<>>
    /\ openRequests' = <<>>
    /\ UNCHANGED <<textModels, openEditors, isDisposed>>

\* No text file model, no editor, the tracker just constructed.
InitTextFiles ==
    /\ textModels = [r \in TextResources |-> NoModel]
    /\ openEditors = {}
    /\ isDisposed = FALSE
    /\ modelsDirty = <<>>
    /\ openRequests = <<>>

InitRegistry ==
    /\ dirty \in [Copies -> BOOLEAN]
    /\ mapResourceToWorkingCopy = <<>>
    /\ handles = EmptyBag
    /\ registered = {}
    /\ autoSaveMode \in AutoSaveModes
    /\ lastKnownDirtyCount = Undefined
    /\ badgeHandle = 0
    /\ activity = <<>>
    /\ op = [name |-> "new", copy |-> ""]
    /\ fired = <<>>
    /\ stacks = <<>>
    /\ observed = <<>>
    /\ updates = 0

Init == InitRegistry /\ InitTextFiles

\* registerWorkingCopy announcing a copy that is dirty when registered.
registerWorkingCopyFiring(workingCopy) ==
    LET added == addToRegistry(mapResourceToWorkingCopy, workingCopy)
        events == IF dirty[workingCopy] THEN <<workingCopy>> ELSE <<>>
    IN  /\ BagCardinality(handles) < MaxRegistrations
        /\ mapResourceToWorkingCopy' = added
        /\ handles' = handles (+) SetToBag({liveHandle(workingCopy)})
        /\ registered' = registered \cup {workingCopy}
        /\ op' = [name |-> "register", copy |-> workingCopy]
        /\ fired' = events
        /\ stacks' = under(events, <<"registerWorkingCopy">>)
        /\ observed' = readings(events, added, dirty)
        /\ trackerBecomes(deliver(tracker, events, added, dirty, autoSaveMode))
        /\ UNCHANGED <<dirty, autoSaveMode>>
        /\ noTextFiles

\* WorkingCopyService.registerWorkingCopy(workingCopy)
registerWorkingCopy(workingCopy) ==
    /\ BagCardinality(handles) < MaxRegistrations
    /\ mapResourceToWorkingCopy' = addToRegistry(mapResourceToWorkingCopy, workingCopy)
    /\ handles' = handles (+) SetToBag({liveHandle(workingCopy)})
    /\ registered' = registered \cup {workingCopy}
    /\ op' = [name |-> "register", copy |-> workingCopy]
    /\ fired' = <<>>
    /\ stacks' = <<>>
    /\ observed' = <<>>
    /\ trackerBecomes(tracker)
    /\ UNCHANGED <<dirty, autoSaveMode>>
    /\ noTextFiles

\* disposeHandle firing the compensating event before it removes the copy
\* from the index.
disposeHandleFiresFirst(h) ==
    /\ h \in BagToSet(handles)
    /\ ~h.disposed
    /\ LET workingCopy == h.workingCopy
           removed == removeFromRegistry(mapResourceToWorkingCopy, workingCopy)
           events == compensatingEvents(workingCopy, dirty)
       IN  /\ mapResourceToWorkingCopy' = removed
           /\ fired' = events
           /\ stacks' = under(events, <<"unregisterWorkingCopy">>)
           /\ observed' = readings(events, mapResourceToWorkingCopy, dirty)
           /\ trackerBecomes(deliver(tracker, events, mapResourceToWorkingCopy,
                                     dirty, autoSaveMode))
           /\ handles' = (handles (-) SetToBag({h}))
                              (+) SetToBag({deadHandle(workingCopy)})
           /\ registered' = registered \ {workingCopy}
           /\ op' = [name |-> "dispose", copy |-> workingCopy]
    /\ UNCHANGED <<dirty, autoSaveMode>>
    /\ noTextFiles

\* handle.dispose() of a handle h that registerWorkingCopy returned and that
\* is not disposed yet: unregisterWorkingCopy(workingCopy), then
\* dispose(disposables).
disposeHandle(h) ==
    /\ h \in BagToSet(handles)
    /\ ~h.disposed
    /\ LET workingCopy == h.workingCopy
           removed == removeFromRegistry(mapResourceToWorkingCopy, workingCopy)
           events == compensatingEvents(workingCopy, dirty)
       IN  /\ mapResourceToWorkingCopy' = removed
           /\ fired' = events
           /\ stacks' = under(events, <<"unregisterWorkingCopy">>)
           /\ observed' = readings(events, removed, dirty)
           /\ trackerBecomes(deliver(tracker, events, removed, dirty, autoSaveMode))
           /\ handles' = (handles (-) SetToBag({h}))
                              (+) SetToBag({deadHandle(workingCopy)})
           /\ registered' = registered \ {workingCopy}
           /\ op' = [name |-> "dispose", copy |-> workingCopy]
    /\ UNCHANGED <<dirty, autoSaveMode>>
    /\ noTextFiles

\* disposeAgain running the wrapped function once more: unregisterWorkingCopy
\* and dispose(disposables) for a second time.
disposeAgainRunsTeardown(h) ==
    /\ h \in BagToSet(handles)
    /\ h.disposed
    /\ LET workingCopy == h.workingCopy
           removed == removeFromRegistry(mapResourceToWorkingCopy, workingCopy)
           events == compensatingEvents(workingCopy, dirty)
       IN  /\ mapResourceToWorkingCopy' = removed
           /\ fired' = events
           /\ stacks' = under(events, <<"unregisterWorkingCopy">>)
           /\ observed' = readings(events, removed, dirty)
           /\ trackerBecomes(deliver(tracker, events, removed, dirty, autoSaveMode))
           /\ registered' = registered \ {workingCopy}
           /\ op' = [name |-> "disposeAgain", copy |-> workingCopy]
    /\ UNCHANGED <<dirty, handles, autoSaveMode>>
    /\ noTextFiles

\* handle.dispose() of a handle h that was disposed before: the function
\* toDisposable wraps runs once, so nothing runs.
disposeAgain(h) ==
    /\ h \in BagToSet(handles)
    /\ h.disposed
    /\ fired' = <<>>
    /\ stacks' = <<>>
    /\ observed' = <<>>
    /\ trackerBecomes(tracker)
    /\ op' = [name |-> "disposeAgain", copy |-> h.workingCopy]
    /\ UNCHANGED <<dirty, mapResourceToWorkingCopy, handles, registered, autoSaveMode>>
    /\ noTextFiles

\* Working copy c fires its onDidChangeDirty, its isDirty() being d from now
\* on (d may be what it was: a firing with no change).
fireDidChangeDirty(c, d) ==
    /\ dirty' = [dirty EXCEPT ![c] = d]
    /\ fired' = forwardedEvents(c)
    /\ stacks' = under(forwardedEvents(c), <<"onDidChangeDirty listener">>)
    /\ observed' = readings(forwardedEvents(c), mapResourceToWorkingCopy, dirty')
    /\ trackerBecomes(deliver(tracker, forwardedEvents(c), mapResourceToWorkingCopy,
                              dirty', autoSaveMode))
    /\ op' = [name |-> IF d = dirty[c] THEN "spurious" ELSE "fire", copy |-> c]
    /\ UNCHANGED <<mapResourceToWorkingCopy, handles, registered, autoSaveMode>>
    /\ noTextFiles

\* Working copy c changes its isDirty() without firing its onDidChangeDirty.
changeDirtySilently(c) ==
    /\ dirty' = [dirty EXCEPT ![c] = ~dirty[c]]
    /\ fired' = <<>>
    /\ stacks' = <<>>
    /\ observed' = <<>>
    /\ trackerBecomes(tracker)
    /\ op' = [name |-> "silent", copy |-> c]
    /\ UNCHANGED <<mapResourceToWorkingCopy, handles, registered, autoSaveMode>>
    /\ noTextFiles

\* The user changes the auto-save setting.
setAutoSaveMode(mode) ==
    /\ mode # autoSaveMode
    /\ autoSaveMode' = mode
    /\ fired' = <<>>
    /\ stacks' = <<>>
    /\ observed' = <<>>
    /\ trackerBecomes(tracker)
    /\ op' = [name |-> "autoSave", copy |-> ""]
    /\ UNCHANGED <<dirty, mapResourceToWorkingCopy, handles, registered>>
    /\ noTextFiles

\* textFileService.models.onModelsDirty fires with batch e: the tracker, while
\* it listens, runs onTextFilesDirty(e).
onTextFilesDirty(e) ==
    /\ modelsDirty' = e
    /\ openRequests' = IF isDisposed THEN <<>> ELSE textFilesDirtyRequests(e)
    /\ op' = [name |-> "modelsDirty", copy |-> ""]
    /\ fired' = <<>>
    /\ stacks' = <<>>
    /\ observed' = <<>>
    /\ trackerBecomes(tracker)
    /\ UNCHANGED <<dirty, mapResourceToWorkingCopy, handles, registered,
                   autoSaveMode, textModels, openEditors, isDisposed>>

\* A shutdown that removes the listeners and leaves the badge with the host.
shutdownKeepsBadge ==
    /\ ~isDisposed
    /\ isDisposed' = TRUE
    /\ trackerBecomes(tracker)
    /\ op' = [name |-> "shutdown", copy |-> ""]
    /\ fired' = <<>>
    /\ stacks' = <<>>
    /\ observed' = <<>>
    /\ modelsDirty' = <<>>
    /\ openRequests' = <<>>
    /\ UNCHANGED <<dirty, mapResourceToWorkingCopy, handles, registered,
                   autoSaveMode, textModels, openEditors>>

\* lifecycleService.onShutdown fires, once: DirtyFilesTracker.dispose()
\* disposes what the tracker registered, the badgeHandle (whose value leaves
\* the activity host) and the two listeners.
shutdown ==
    /\ ~isDisposed
    /\ isDisposed' = TRUE
    /\ trackerBecomes(clearBadge(tracker))
    /\ op' = [name |-> "shutdown", copy |-> ""]
    /\ fired' = <<>>
    /\ stacks' = <<>>
    /\ observed' = <<>>
    /\ modelsDirty' = <<>>
    /\ openRequests' = <<>>
    /\ UNCHANGED <<dirty, mapResourceToWorkingCopy, handles, registered,
                   autoSaveMode, textModels, openEditors>>

Next ==
    \/ \E c \in Copies : registerWorkingCopy(c)
    \/ \E h \in BagToSet(handles) : disposeHandle(h)
    \/ \E h \in BagToSet(handles) : disposeAgain(h)
    \/ \E c \in Copies, d \in BOOLEAN : fireDidChangeDirty(c, d)
    \/ \E c \in Copies : changeDirtySilently(c)
    \/ \E mode \in AutoSaveModes : setAutoSaveMode(mode)

Spec == Init /\ [][Next]_vars

----------------------------------------------------------------------------
(* The registry used as its owners are meant to use it: the tracker listens *)
(* from the start, when no copy is dirty; a copy is clean when it is        *)
(* registered; a copy fires whenever its dirty state changes; and no event  *)
(* falls under the auto-save rule of the tracker.                           *)

InitClean ==
    /\ Init
    /\ dirty = [c \in Copies |-> FALSE]

registerClean(c) ==
    /\ ~dirty[c]
    /\ registerWorkingCopy(c)

disposeUnsuppressed(h) ==
    /\ disposeHandle(h)
    /\ fired' = <<>> \/ ~suppressed(h.workingCopy, autoSaveMode)

fireUnsuppressed(c, d) ==
    /\ fireDidChangeDirty(c, d)
    /\ fired' = <<>> \/ ~suppressed(c, autoSaveMode)

NextClean ==
    \/ \E c \in Copies : registerClean(c)
    \/ \E h \in BagToSet(handles) : disposeUnsuppressed(h)
    \/ \E h \in BagToSet(handles) : disposeAgain(h)
    \/ \E c \in Copies, d \in BOOLEAN : fireUnsuppressed(c, d)
    \/ \E mode \in AutoSaveModes : setAutoSaveMode(mode)

SpecClean == InitClean /\ [][NextClean]_vars

----------------------------------------------------------------------------
(* The text file listener of the tracker on its own: any models, any open   *)
(* editors, any batch.                                                      *)

InitOpen ==
    /\ InitRegistry
    /\ dirty = [c \in Copies |-> FALSE]
    /\ textModels \in [TextResources -> Models]
    /\ openEditors \in SUBSET TextResources
    /\ isDisposed = FALSE
    /\ modelsDirty = <<>>
    /\ openRequests = <<>>

NextOpen == \E e \in Batches : onTextFilesDirty(e)

SpecOpen == InitOpen /\ [][NextOpen]_vars

----------------------------------------------------------------------------
(* The tracker through its lifecycle: registry events and notifications of  *)
(* single text files before and after the shutdown. One text file has a     *)
(* dirty model and no editor, so that a notification of it opens one.       *)

InitLifecycle ==
    /\ InitRegistry
    /\ dirty = [c \in Copies |-> FALSE]
    /\ autoSaveMode = "OFF"
    /\ textModels =
           [r \in TextResources |->
               IF r = FileF1
               THEN [exists |-> TRUE, dirty |-> TRUE, pendingSave |-> FALSE]
               ELSE NoModel]
    /\ openEditors = {}
    /\ isDisposed = FALSE
    /\ modelsDirty = <<>>
    /\ openRequests = <<>>

NextLifecycle ==
    \/ \E c \in Copies : registerWorkingCopy(c)
    \/ \E h \in BagToSet(handles) : disposeHandle(h)
    \/ \E c \in Copies, d \in BOOLEAN : fireDidChangeDirty(c, d)
    \/ \E r \in TextResources : onTextFilesDirty(<<r>>)
    \/ shutdown

SpecLifecycle == InitLifecycle /\ [][NextLifecycle]_vars

----------------------------------------------------------------------------
(* A handler listening to the registry's onDidChangeDirty after the tracker *)
(* that calls the registry back, once, from inside the first event of an    *)
(* operation.  An operation in progress is the record                       *)
(* [m, hs, reg, t, ev, st, obs]: the index, the handles, the registered     *)
(* copies and the tracker as they are, and the events fired so far with the *)
(* functions of the registry running at each and what a listener read.      *)

\* An operation about to start in the current state.
running ==
    [m |-> mapResourceToWorkingCopy, hs |-> handles, reg |-> registered,
     t |-> tracker, ev |-> <<>>, st |-> <<>>, obs |-> <<>>]

\* this._onDidChangeDirty.fire(workingCopy) for each of events, from under
\* frames, the dirty states being d.
RECURSIVE dispatch(_, _, _, _, _)
dispatch(S, events, d, mode, frames) ==
    IF events = <<>> THEN S
    ELSE LET workingCopy == Head(events)
             called ==
                 [S EXCEPT !.t = deliver(@, <<workingCopy>>, S.m, d, mode),
                           !.ev = Append(@, workingCopy),
                           !.st = Append(@, frames),
                           !.obs = @ \o readings(<<workingCopy>>, S.m, d)]
         IN  dispatch(called, Tail(events), d, mode, frames)

\* What the handler may call: registerWorkingCopy(copy), or the dispose() of
\* a handle of copy.
HandlerCalls == [kind : {"register", "dispose"}, copy : Copies]

\* The handler has what its call needs: room for one more handle, or a
\* handle of the copy that is not disposed nor being disposed.
canCall(S, call) ==
    IF call.kind = "register" THEN BagCardinality(handles) < MaxRegistrations
    ELSE CopiesIn(liveHandle(call.copy), S.hs) > 0

\* The handler makes its call from under frames: registerWorkingCopy (lines
\* 93-114), or the function of lines 110-113 with the compensating event of
\* unregisterWorkingCopy dispatched meanwhile.
handlerCalls(S, call, d, mode, frames) ==
    IF call.kind = "register"
    THEN [S EXCEPT !.m = addToRegistry(@, call.copy),
                   !.hs = @ (+) SetToBag({liveHandle(call.copy)}),
                   !.reg = @ \cup {call.copy}]
    ELSE LET removed == [S EXCEPT !.m = removeFromRegistry(@, call.copy),
                                  !.reg = @ \ {call.copy}]
             told == dispatch(removed, compensatingEvents(call.copy, d), d, mode,
                              frames \o <<"handler", "unregisterWorkingCopy">>)
         IN  [told EXCEPT !.hs = (@ (-) SetToBag({liveHandle(call.copy)}))
                                     (+) SetToBag({deadHandle(call.copy)})]

\* The operation is over: its record becomes the state.
completes(S) ==
    \E done \in {S} :
        /\ mapResourceToWorkingCopy' = done.m
        /\ handles' = done.hs
        /\ registered' = done.reg
        /\ fired' = done.ev
        /\ stacks' = done.st
        /\ observed' = done.obs
        /\ trackerBecomes(done.t)

\* disposeHandleReentrant deleting the copy from the index after the
\* compensating event is dispatched and the handler has returned.
disposeHandleReentrantFiresFirst(h, call) ==
    /\ h \in BagToSet(handles)
    /\ ~h.disposed
    /\ compensatingEvents(h.workingCopy, dirty) # <<>>
    /\ LET workingCopy == h.workingCopy
           start == [running EXCEPT !.reg = @ \ {workingCopy},
                                    !.hs = @ (-) SetToBag({h})]
           told == dispatch(start, compensatingEvents(workingCopy, dirty), dirty,
                            autoSaveMode, <<"unregisterWorkingCopy">>)
           called == handlerCalls(told, call, dirty, autoSaveMode,
                                  <<"unregisterWorkingCopy">>)
       IN  /\ canCall(start, call)
           /\ completes([called EXCEPT
                  !.m = removeFromRegistry(@, workingCopy),
                  !.hs = @ (+) SetToBag({deadHandle(workingCopy)})])
           /\ op' = [name |-> "disposeReentrant", copy |-> workingCopy]
    /\ UNCHANGED <<dirty, autoSaveMode>>
    /\ noTextFiles

\* handle.dispose() of a live handle h of a dirty copy, the handler making
\* call when it gets the compensating event: unregisterWorkingCopy deletes
\* the copy and fires (line 127), the handler calls, and only then
\* dispose(disposables) runs (line 112).
disposeHandleReentrant(h, call) ==
    /\ h \in BagToSet(handles)
    /\ ~h.disposed
    /\ compensatingEvents(h.workingCopy, dirty) # <<>>
    /\ LET workingCopy == h.workingCopy
           start == [running EXCEPT
                        !.m = removeFromRegistry(@, workingCopy),
                        !.reg = @ \ {workingCopy},
                        !.hs = @ (-) SetToBag({h})]
           told == dispatch(start, compensatingEvents(workingCopy, dirty), dirty,
                            autoSaveMode, <<"unregisterWorkingCopy">>)
           called == handlerCalls(told, call, dirty, autoSaveMode,
                                  <<"unregisterWorkingCopy">>)
       IN  /\ canCall(start, call)
           /\ completes([called EXCEPT
                  !.hs = @ (+) SetToBag({deadHandle(workingCopy)})])
           /\ op' = [name |-> "disposeReentrant", copy |-> workingCopy]
    /\ UNCHANGED <<dirty, autoSaveMode>>
    /\ noTextFiles

\* Registered working copy c fires its onDidChangeDirty, its isDirty() being
\* d from now on, the handler making call when it gets the first forwarded
\* event: the listeners c had when it fired are all called (line 108), those
\* the handler's call disposed too.
fireDidChangeDirtyReentrant(c, d, call) ==
    /\ listeners(c) > 0
    /\ canCall(running, call)
    /\ dirty' = [dirty EXCEPT ![c] = d]
    /\ LET first == dispatch(running, <<c>>, dirty', autoSaveMode,
                             <<"onDidChangeDirty listener">>)
           called == handlerCalls(first, call, dirty', autoSaveMode,
                                  <<"onDidChangeDirty listener">>)
       IN  completes(dispatch(called, Tail(forwardedEvents(c)), dirty',
                              autoSaveMode, <<"onDidChangeDirty listener">>))
    /\ op' = [name |-> "fireReentrant", copy |-> c]
    /\ UNCHANGED autoSaveMode
    /\ noTextFiles

InitReentrant ==
    /\ Init
    /\ dirty = [c \in Copies |-> FALSE]
    /\ autoSaveMode = "OFF"

NextReentrant ==
    \/ \E c \in Copies : registerWorkingCopy(c)
    \/ \E h \in BagToSet(handles) : disposeHandle(h)
    \/ \E c \in Copies, d \in BOOLEAN : fireDidChangeDirty(c, d)
    \/ \E h \in BagToSet(handles), call \in HandlerCalls :
           disposeHandleReentrant(h, call)
    \/ \E c \in Copies, d \in BOOLEAN, call \in HandlerCalls :
           fireDidChangeDirtyReentrant(c, d, call)

SpecReentrant == InitReentrant /\ [][NextReentrant]_vars

----------------------------------------------------------------------------
(* The claims *)

\* The copies of registered whose resource is uri.
registeredUnder(uri) == {c \in registered : resource(c) = uri}

\* C1: after any sequence of registrations, handle disposals and dirty/clean
\* changes, isDirty(resource) is true exactly when some copy currently
\* registered under that resource is dirty; it is false for a resource
\* with no registered copy.
C1_IsDirtyIsOrOverRegistered ==
    \A uri \in Resources :
        isDirty(uri) <=> (\E c \in registeredUnder(uri) : dirty[c])

\* C1's case: A was unregistered while dirty and B, of the same resource,
\* stays registered and dirty; C is registered clean under another resource.
C1_Witness ==
    /\ op = [name |-> "dispose", copy |-> "A"]
    /\ dirty["A"] /\ dirty["B"] /\ ~dirty["C"]
    /\ registered = {"B", "C"}
    /\ isDirty(FileF1) /\ ~isDirty(FileF2) /\ ~isDirty(UntitledF1)

\* C2: dirtyCount is the number of currently registered copies, over all
\* resources, that are dirty.
C2_DirtyCountCountsRegisteredDirty ==
    dirtyCount = Cardinality({c \in registered : dirty[c]})

\* C2's case: two dirty copies of one resource count as 2, a clean copy of
\* another resource as 0.
C2_Witness ==
    /\ registered = Copies
    /\ dirty["A"] /\ dirty["B"] /\ ~dirty["C"]
    /\ dirtyCount = 2

\* C3: disposing a registration handle fires exactly one registry event,
\* carrying the copy, if the copy is dirty at disposal time, and none if it
\* is clean.
C3_DisposalFiresOnceIfDirty ==
    op.name = "dispose" =>
        fired = IF dirty[op.copy] THEN <<op.copy>> ELSE <<>>

\* C3's case: a dirty copy's handle was disposed and one event was fired.
C3_Witness ==
    /\ op.name = "dispose"
    /\ dirty[op.copy]
    /\ fired = <<op.copy>>
    /\ op.copy \notin registered

\* C4: after the same copy was registered twice (both handles alive), one
\* firing of the copy's onDidChangeDirty produces exactly one registry event.
C4_TwoRegistrationsOneEvent ==
    ( /\ op.name \in {"fire", "spurious"}
      /\ CopiesIn(liveHandle(op.copy), handles) = 2
      /\ CopiesIn(deadHandle(op.copy), handles) = 0 )
    => fired = <<op.copy>>

\* The number of entries of the set workingCopies that are copy c.
entries(workingCopies, c) ==
    Cardinality({i \in 1..Len(workingCopies) : workingCopies[i] = c})

\* What copy c adds to dirtyCount when it is dirty.
contribution(c) ==
    dirtyCountOf(mapResourceToWorkingCopy, [dirty EXCEPT ![c] = TRUE])
    - dirtyCountOf(mapResourceToWorkingCopy, [dirty EXCEPT ![c] = FALSE])

\* C5: after a copy was registered a second time under its resource, the
\* resource's set holds the copy exactly once, and the copy, when dirty,
\* adds exactly 1 to dirtyCount.
C5_TwoRegistrationsOneEntry ==
    ( /\ op.name = "register"
      /\ CopiesIn(liveHandle(op.copy), handles) >= 2 )
    => /\ has(toString(resource(op.copy)))
       /\ entries(mapResourceToWorkingCopy[toString(resource(op.copy))], op.copy) = 1
       /\ contribution(op.copy) = 1

\* C5's case: dirty copy A was just registered for the second time, beside
\* dirty copy B of the same resource.
C5_Witness ==
    /\ op = [name |-> "register", copy |-> "A"]
    /\ CopiesIn(liveHandle("A"), handles) = 2
    /\ dirty["A"] /\ dirty["B"] /\ "B" \in registered
    /\ dirtyCount = 2

C7_KeyIffCopies ==
    /\ \A key \in DOMAIN mapResourceToWorkingCopy :
           Len(mapResourceToWorkingCopy[key]) > 0
    /\ DOMAIN mapResourceToWorkingCopy = {toString(resource(c)) : c \in registered}

\* C7's case: the handle of the last copy of file:///f1 was disposed and the
\* key is gone, while the key of file:///f2 stays.
C7_Witness ==
    /\ op.name = "dispose"
    /\ resource(op.copy) = FileF1
    /\ ~has(toString(FileF1))
    /\ has(toString(FileF2))

\* C8: for a copy with one live registration, every firing of its
\* onDidChangeDirty, with or without a change of its dirty state, produces
\* exactly one registry event carrying the copy, within the same operation.
C8_OneEventPerFiring ==
    ( /\ op.name \in {"fire", "spurious"}
      /\ CopiesIn(liveHandle(op.copy), handles) = 1 )
    => fired = <<op.copy>>

\* C8's case: a registered copy fired with no change of its dirty state and
\* the registry fired once.
C8_Witness ==
    /\ op.name = "spurious"
    /\ CopiesIn(liveHandle(op.copy), handles) = 1
    /\ op.copy \in registered
    /\ fired = <<op.copy>>

\* C9: a registry dirty-change event for a copy that declares AutoSave,
\* delivered while the auto-save mode is AFTER_SHORT_DELAY, changes neither
\* the badge shown nor lastKnownDirtyCount, whatever dirtyCount is.
C9_AutoSaveShortDelaySuppressed ==
    [][ ( /\ fired' # <<>>
          /\ "AutoSave" \in capabilities(op'.copy)
          /\ autoSaveMode' = "AFTER_SHORT_DELAY" )
        => /\ activity' = activity
           /\ badgeHandle' = badgeHandle
           /\ lastKnownDirtyCount' = lastKnownDirtyCount ]_vars

\* C9's case: B (AutoSave) became dirty and fired under AFTER_SHORT_DELAY
\* while the badge shows 1 for A: dirtyCount is 2 and the badge still shows 1.
C9_Witness ==
    /\ op = [name |-> "fire", copy |-> "B"]
    /\ fired = <<"B">>
    /\ autoSaveMode = "AFTER_SHORT_DELAY"
    /\ dirtyCount = 2
    /\ lastKnownDirtyCount = 1
    /\ activity = <<[number |-> 1, label |-> "1 unsaved file"]>>

\* The label the badge is to show for n unsaved files.
expectedLabel(n) ==
    CASE n = 1 -> "1 unsaved file"
      [] n = 2 -> "2 unsaved files"
      [] n = 3 -> "3 unsaved files"
      [] OTHER -> "?"

\* C10: when the indicator has recomputed, lastKnownDirtyCount is the
\* registry's dirtyCount; no badge is shown if that count is zero, and if it
\* is n > 0 the one badge shown has number n and label "1 unsaved file"
\* (n = 1) or "n unsaved files".
C10_RecomputeShowsDirtyCount ==
    updates > 0 =>
        /\ lastKnownDirtyCount = dirtyCount
        /\ dirtyCount = 0 => activity = <<>> /\ badgeHandle = 0
        /\ dirtyCount > 0 =>
               /\ activity = <<[number |-> dirtyCount,
                                label |-> expectedLabel(dirtyCount)]>>
               /\ badgeHandle = 1

\* C10's case: A became dirty beside dirty B and the recompute shows 2.
C10_Witness ==
    /\ updates > 0
    /\ op = [name |-> "fire", copy |-> "A"]
    /\ dirtyCount = 2
    /\ activity = <<[number |-> 2, label |-> "2 unsaved files"]>>

\* C11: once the only registration of a copy has been disposed, a firing of
\* the copy's onDidChangeDirty produces no registry event.
C11_NoEventAfterDisposal ==
    ( /\ op.name \in {"fire", "spurious"}
      /\ CopiesIn(liveHandle(op.copy), handles) = 0 )
    => fired = <<>>

\* C11's case: A was registered once, its handle is disposed, and A has just
\* become dirty and fired.
C11_Witness ==
    /\ op = [name |-> "fire", copy |-> "A"]
    /\ dirty["A"]
    /\ CopiesIn(deadHandle("A"), handles) = 1
    /\ CopiesIn(liveHandle("A"), handles) = 0
    /\ fired = <<>>

\* Copy c is a member of its resource's set in the index.
inIndex(c) ==
    /\ has(toString(resource(c)))
    /\ setHas(mapResourceToWorkingCopy[toString(resource(c))], c)

\* C12: between operations the registry listens to a copy's dirty-change
\* stream exactly when the copy is in the index.
C12_SubscribedIffInIndex ==
    \A c \in Copies : (listeners(c) > 0) <=> inIndex(c)

\* C13: disposing the handle of one copy leaves every other copy where it
\* was: in or out of the index, with the same subscriptions.
C13_DisposalLeavesOthers ==
    [][ op'.name = "dispose" =>
            \A c \in Copies \ {op'.copy} :
                /\ inIndex(c)' = inIndex(c)
                /\ listeners(c)' = listeners(c) ]_vars

\* C13's case: dirty A was unregistered beside dirty B of the same resource;
\* the key stays, isDirty(file:///f1) is B's isDirty() and dirtyCount is 1.
C13_Witness ==
    /\ op = [name |-> "dispose", copy |-> "A"]
    /\ dirty["A"] /\ dirty["B"]
    /\ inIndex("B") /\ listeners("B") = 1
    /\ has(toString(FileF1))
    /\ isDirty(FileF1) = dirty["B"]
    /\ dirtyCount = 1
    /\ fired = <<"A">>

\* C15: on an event for copy c that the auto-save rule does not suppress, the
\* indicator recomputes exactly when c is dirty at that time or
\* lastKnownDirtyCount is a number above zero; otherwise the badge and
\* lastKnownDirtyCount stay as they were.
C15_RecomputeIffDirtyOrKnownDirty ==
    [][ ( /\ fired' # <<>>
          /\ ~("AutoSave" \in capabilities(op'.copy)
               /\ autoSaveMode' = "AFTER_SHORT_DELAY") )
        => /\ updates' > 0 <=>
                  \/ dirty'[op'.copy]
                  \/ (lastKnownDirtyCount # Undefined /\ lastKnownDirtyCount > 0)
           /\ updates' = 0 =>
                  /\ activity' = activity
                  /\ badgeHandle' = badgeHandle
                  /\ lastKnownDirtyCount' = lastKnownDirtyCount ]_vars

\* C15's case: clean A fired while lastKnownDirtyCount is 0; nothing was
\* recomputed although dirtyCount is above zero.
C15_Witness ==
    /\ op.name \in {"fire", "spurious"}
    /\ fired = <<op.copy>>
    /\ ~dirty[op.copy]
    /\ "AutoSave" \notin capabilities(op.copy)
    /\ lastKnownDirtyCount = 0
    /\ updates = 0
    /\ dirtyCount > 0
    /\ activity = <<>>

\* C17: registerWorkingCopy fires no registry event and leaves the indicator
\* alone, also when the copy is dirty when it is registered.
C17_RegisterFiresNothing ==
    op.name = "register" => fired = <<>> /\ updates = 0

\* C17's case: a dirty copy was registered; dirtyCount and isDirty count it
\* and no event was fired, so no badge is shown.
C17_Witness ==
    /\ op = [name |-> "register", copy |-> "A"]
    /\ dirty["A"]
    /\ dirtyCount = 1
    /\ isDirty(FileF1)
    /\ fired = <<>>
    /\ activity = <<>>
    /\ lastKnownDirtyCount = Undefined

\* The dirty registered copies other than copy c.
otherDirty(c) == {x \in registered \ {c} : dirty[x]}

\* C14: the compensating event of a disposal is delivered after the copy has
\* left the index: a listener reading dirtyCount or isDirty(resource) during
\* the event gets values that exclude the disposed copy, and the indicator,
\* when it recomputes on that event, shows the count without it.
C14_CompensatingEventAfterRemoval ==
    (op.name = "dispose" /\ fired # <<>>) =>
        /\ observed =
               <<[dirtyCount |-> Cardinality(otherDirty(op.copy)),
                  isDirty |-> \E x \in otherDirty(op.copy) :
                                   resource(x) = resource(op.copy)]>>
        /\ updates > 0 =>
               /\ lastKnownDirtyCount = Cardinality(otherDirty(op.copy))
               /\ lastKnownDirtyCount = 0 => activity = <<>>
               /\ lastKnownDirtyCount > 0 =>
                      /\ Len(activity) = 1
                      /\ activity[1].number = lastKnownDirtyCount

\* C14's case: dirty A, the only dirty copy, was unregistered beside B: the
\* listener read dirtyCount 0 and isDirty false, and the indicator recomputed
\* to no badge.
C14_Witness ==
    /\ op = [name |-> "dispose", copy |-> "A"]
    /\ dirty["A"]
    /\ "B" \in registered
    /\ observed = <<[dirtyCount |-> 0, isDirty |-> FALSE]>>
    /\ updates = 1
    /\ lastKnownDirtyCount = 0
    /\ activity = <<>>

\* C16 (under SpecClean): after every operation the indicator agrees with
\* the registry: no badge when dirtyCount is 0, and exactly the badge for n
\* when dirtyCount is n > 0.
C16_IndicatorAgrees ==
    /\ dirtyCount = 0 => activity = <<>>
    /\ dirtyCount > 0 =>
           activity = <<[number |-> dirtyCount,
                         label |-> expectedLabel(dirtyCount)]>>

\* C16's case: dirty A was unregistered beside dirty B; the badge went from 2
\* to 1.
C16_Witness ==
    /\ op = [name |-> "dispose", copy |-> "A"]
    /\ dirty["A"] /\ dirty["B"]
    /\ dirtyCount = 1
    /\ updates = 1
    /\ activity = <<[number |-> 1, label |-> "1 unsaved file"]>>

\* The resources of a batch that the open request is to hold: the model
\* exists, is dirty, has no save pending, and no editor shows the resource.
qualifying(e) ==
    {e[i] : i \in {j \in 1..Len(e) :
        /\ textModels[e[j]].exists
        /\ textModels[e[j]].dirty
        /\ ~textModels[e[j]].pendingSave
        /\ e[j] \notin openEditors}}

\* C19: a batch of text file notifications sends one open request, holding
\* exactly the resources of the batch whose model exists, is dirty, has no
\* save pending and has no editor, each once by its string, each inactive,
\* pinned and with the focus preserved.
C19_OneOpenRequestOfQualifying ==
    op.name = "modelsDirty" /\ ~isDisposed =>
        /\ Len(openRequests) = 1
        /\ LET editors == openRequests[1]
           IN  /\ {editors[i].resource : i \in 1..Len(editors)}
                      = qualifying(modelsDirty)
               /\ \A i, j \in 1..Len(editors) :
                      toString(editors[i].resource) = toString(editors[j].resource)
                          => i = j
               /\ \A i \in 1..Len(editors) :
                      /\ editors[i].options.inactive
                      /\ editors[i].options.pinned
                      /\ editors[i].options.preserveFocus

\* A batch naming one file twice around a file whose save is pending: the
\* request holds the first file once.
C19_Witness ==
    /\ op.name = "modelsDirty"
    /\ modelsDirty = <<FileF1, FileF2, FileF1>>
    /\ textModels[FileF2].pendingSave /\ textModels[FileF2].dirty
    /\ Len(openRequests) = 1
    /\ Len(openRequests[1]) = 1
    /\ openRequests[1][1].resource = FileF1

\* C20: once the tracker is disposed by the shutdown, the host shows no
\* badge of it, and no registry event updates the badge and no text file
\* notification opens an editor.
C20_DisposedTrackerIsSilent ==
    isDisposed =>
        /\ activity = <<>>
        /\ badgeHandle = 0
        /\ updates = 0
        /\ openRequests = <<>>

\* After the shutdown a second copy becomes dirty and the registry says so to
\* nobody: the tracker still remembers one dirty copy and shows nothing.
C20_Witness ==
    /\ isDisposed
    /\ op.name = "fire"
    /\ fired # <<>>
    /\ dirtyCount = 2
    /\ lastKnownDirtyCount = 1
    /\ activity = <<>>

\* The functions of the registry that iterate a resource's working-copy
\* set: isDirty (lines 61-66) and the dirtyCount getter (lines 75-81).
IteratingFrames == {"isDirty", "dirtyCount"}

\* The copies in the index.
indexed == {c \in Copies : inIndex(c)}

\* C18: when a handler called during the dispatch of a forwarded or a
\* compensating event registers a copy or disposes a handle, no event of the
\* operation is dispatched from inside a function that iterates a set, and
\* when the operation is over the index has no empty set, holds each copy
\* once under its own resource, holds the registered copies, and isDirty and
\* dirtyCount aggregate over exactly the copies it holds.
C18_ReentrancySafe ==
    op.name \in {"fireReentrant", "disposeReentrant"} =>
        /\ \A i \in 1..Len(stacks) : \A j \in 1..Len(stacks[i]) :
               stacks[i][j] \notin IteratingFrames
        /\ \A key \in DOMAIN mapResourceToWorkingCopy :
               /\ mapResourceToWorkingCopy[key] # <<>>
               /\ \A i \in 1..Len(mapResourceToWorkingCopy[key]) :
                      LET c == mapResourceToWorkingCopy[key][i]
                      IN  /\ toString(resource(c)) = key
                          /\ entries(mapResourceToWorkingCopy[key], c) = 1
        /\ indexed = registered
        /\ \A uri \in Resources :
               isDirty(uri) <=> (\E c \in indexed : resource(c) = uri /\ dirty[c])
        /\ dirtyCount = Cardinality({c \in indexed : dirty[c]})

\* The handle of dirty copy A is disposed and the handler, told so,
\* registers A again: A is in the index when the disposal is over.
C18_Witness ==
    /\ op = [name |-> "disposeReentrant", copy |-> "A"]
    /\ fired = <<"A">>
    /\ inIndex("A")
    /\ listeners("A") = 1
    /\ dirtyCount = 1

====
